---- MODULE Spec2Model ----
(***************************************************************************)
(* Model of src/template/index.js: the browser driver of the simulation.   *)
(*                                                                         *)
(* Numbers.  Entity coordinates are thousandths of the canvas (x = 500 is  *)
(* 0.5), a rotation is a multiple of 30 degrees (0..11), the device pixel  *)
(* ratio is counted in halves (3 is 1.5).  A coordinate handed to the 2D   *)
(* context is the exact number (u + v*sqrt(3)) / 4 thousandths of a pixel, *)
(* held as the record [u |-> u, v |-> v]: sqrt(3) is irrational, so two    *)
(* such records are equal exactly when the numbers are.                    *)
(***************************************************************************)
EXTENDS Integers, Sequences, FiniteSets, TLC

\* ---------------------------------------------------------------- bounds
MaxFrames == 3
MaxClicks == 2
MaxCalls == 2
MaxDim == 2

\* ------------------------------------------------------- exact arithmetic
Num(n) == [u |-> 4 * n, v |-> 0]
Sub(a, b) == [u |-> a.u - b.u, v |-> a.v - b.v]
Add(a, b) == [u |-> a.u + b.u, v |-> a.v + b.v]
Mul(a, n) == [u |-> a.u * n, v |-> a.v * n]
\* a * 1.5; exact, every sine below has even parts
Mul15(a) == [u |-> (a.u * 3) \div 2, v |-> (a.v * 3) \div 2]

\* Math.sin of k * 30 degrees
MathSin(k) ==
    LET t == <<[u |-> 0, v |-> 0], [u |-> 2, v |-> 0], [u |-> 0, v |-> 2],
               [u |-> 4, v |-> 0], [u |-> 0, v |-> 2], [u |-> 2, v |-> 0],
               [u |-> 0, v |-> 0], [u |-> -2, v |-> 0], [u |-> 0, v |-> -2],
               [u |-> -4, v |-> 0], [u |-> 0, v |-> -2], [u |-> -2, v |-> 0]>>
    IN  t[(k % 12) + 1]
\* Math.cos of k * 30 degrees
MathCos(k) == MathSin(k + 3)
\* 2.0 / 3.0 * Math.PI and 4.0 / 3.0 * Math.PI, in units of 30 degrees
TwoThirdsPi == 4
FourThirdsPi == 8
\* 2.0 * Math.PI
TwoPi == 12

\* ------------------------------------------------- the 2D context (host)
White == "rgb(255, 255, 255)"
Green == "rgb(0, 255, 128)"
Black == "#000000"

\* A fresh context: default styles, empty path, identity transform, nothing
\* painted. scale is in halves (2 is the identity).
NewContext ==
    [fillStyle |-> Black, strokeStyle |-> Black, path |-> <<>>,
     scale |-> 2, painted |-> <<>>, calls |-> <<>>]

Call(c, name, args) == [c EXCEPT !.calls = Append(@, <<name, args>>)]

beginPath(c) == [Call(c, "beginPath", <<>>) EXCEPT !.path = <<>>]
moveTo(c, x, y) ==
    [Call(c, "moveTo", <<x, y>>) EXCEPT !.path = Append(@, <<"M", x, y>>)]
lineTo(c, x, y) ==
    [Call(c, "lineTo", <<x, y>>) EXCEPT !.path = Append(@, <<"L", x, y>>)]
arc(c, x, y, radius, from, to) ==
    [Call(c, "arc", <<x, y, radius, from, to>>)
        EXCEPT !.path = Append(@, <<"A", x, y, radius, from, to>>)]
stroke(c) ==
    [Call(c, "stroke", <<>>)
        EXCEPT !.painted = Append(@, <<"stroke", c.path, c.strokeStyle>>)]
fill(c) ==
    [Call(c, "fill", <<>>)
        EXCEPT !.painted = Append(@, <<"fill", c.path, c.fillStyle>>)]
setFillStyle(c, colour) == [c EXCEPT !.fillStyle = colour]
\* clearRect(0, 0, w, h) under the context's scale: it erases what was painted
\* when the scaled rectangle covers the whole buffer bw x bh.
clearRect(c, w, h, bw, bh) ==
    [Call(c, "clearRect", <<0, 0, w, h>>)
        EXCEPT !.painted = IF w * c.scale >= 2 * bw /\ h * c.scale >= 2 * bh
                           THEN <<>> ELSE @]
scale(c, s) == [Call(c, "scale", <<s, s>>) EXCEPT !.scale = (@ * s) \div 2]

\* ------------------------------------------------------ drawing helpers
\* the last lineTo does not return to the first vertex
drawTriangleOpen(c, x, y, size, rotation) ==
    LET c1 == beginPath(c)
        c2 == moveTo(c1,
                Sub(Num(x), Mul15(Mul(MathSin(rotation), size))),
                Add(Num(y), Mul15(Mul(MathCos(rotation), size))))
        c3 == lineTo(c2,
                Sub(Num(x), Mul(MathSin(rotation + TwoThirdsPi), size)),
                Add(Num(y), Mul(MathCos(rotation + TwoThirdsPi), size)))
        c4 == lineTo(c3,
                Sub(Num(x), Mul(MathSin(rotation + FourThirdsPi), size)),
                Add(Num(y), Mul(MathCos(rotation + FourThirdsPi), size)))
        c5 == lineTo(c4,
                Sub(Num(x), Mul(MathSin(rotation + FourThirdsPi), size)),
                Add(Num(y), Mul(MathCos(rotation + FourThirdsPi), size)))
    IN  fill(setFillStyle(stroke(c5), White))

drawTriangle(c, x, y, size, rotation) ==
    LET c1 == beginPath(c)
        c2 == moveTo(c1,
                Sub(Num(x), Mul15(Mul(MathSin(rotation), size))),
                Add(Num(y), Mul15(Mul(MathCos(rotation), size))))
        c3 == lineTo(c2,
                Sub(Num(x), Mul(MathSin(rotation + TwoThirdsPi), size)),
                Add(Num(y), Mul(MathCos(rotation + TwoThirdsPi), size)))
        c4 == lineTo(c3,
                Sub(Num(x), Mul(MathSin(rotation + FourThirdsPi), size)),
                Add(Num(y), Mul(MathCos(rotation + FourThirdsPi), size)))
        c5 == lineTo(c4,
                Sub(Num(x), Mul15(Mul(MathSin(rotation), size))),
                Add(Num(y), Mul15(Mul(MathCos(rotation), size))))
    IN  fill(setFillStyle(stroke(c5), White))

\* fillStyle is not set before the fill
drawCircleKeepStyle(c, x, y, radius) ==
    fill(arc(beginPath(c), Num(x), Num(y), Num(radius), 0, TwoPi))

drawCircle(c, x, y, radius) ==
    LET c1 == beginPath(c)
        c2 == arc(c1, Num(x), Num(y), Num(radius), 0, TwoPi)
    IN  fill(setFillStyle(c2, Green))

\* ------------------------------------------------- the simulation (host)
\* The simulation is an opaque object: its state is the snapshot world() returns,
\* step() and train() replace it by some other snapshot.
F1 == [x |-> 250, y |-> 500]
F2 == [x |-> 750, y |-> 125]
A1 == [x |-> 500, y |-> 500, rotation |-> 1]
A2 == [x |-> 125, y |-> 875, rotation |-> 8]
Worlds ==
    { [foods |-> <<>>, animals |-> <<>>],
      [foods |-> <<F1>>, animals |-> <<A1>>],
      [foods |-> <<F1, F2>>, animals |-> <<A2, A1>>],
      [foods |-> <<F2, F2>>, animals |-> <<>>],
      [foods |-> <<>>, animals |-> <<A2>>] }
InitialWorld == [foods |-> <<F1>>, animals |-> <<A1>>]

\* ---------------------------------------------------------------- state
VARIABLES
    document,        \* the page: which elements exist, the canvas's attributes
    window,          \* window.devicePixelRatio (in halves), or not defined
    sim,             \* the simulation's current snapshot
    onclick,         \* the train button's handler is installed
    world,           \* const world (line 9): <<>> until taken
    ctxt,            \* const ctxt: "unset", "null" or "context"
    viewport,        \* the canvas: buffer width, height, style width, height
    viewportWidth, viewportHeight, viewportScale,
    ctx,             \* the 2D context's state
    helpers,         \* drawTriangle and drawCircle are on the prototype
    pc,              \* the statement about to run; "idle": no script is running
    fault,           \* where an unhandled fault ended a script, or "none"
    snap, i,         \* the array a for..of iterates and the next index
    pending,         \* animation-frame callbacks requested and not yet run
    frames,          \* redraw invocations started
    rafCalls,        \* requestAnimationFrame calls
    stepCalls, trainCalls, worldCalls,
    ops,             \* the calls of the current redraw invocation, in order
    lastCall,        \* the latest helper call on a bare context
    nCalls

vars ==
    <<document, window, sim, onclick, world, ctxt, viewport, viewportWidth,
      viewportHeight, viewportScale, ctx, helpers, pc, fault, snap, i, pending,
      frames, rafCalls, stepCalls, trainCalls, worldCalls, ops, lastCall, nCalls>>

env == <<document, window>>
consts == <<viewportWidth, viewportHeight, viewportScale>>
helperVars == <<lastCall, nCalls>>

InRedraw == pc \in {"r118", "r120", "r122", "r123", "r130", "r131", "r143"}

\* simulation.world()
World(s) == s

\* The canvas's width and height attributes are unsigned long: a fractional
\* value assigned to them is truncated. n2 is the assigned value in halves.
CanvasDimension(n2) == n2 \div 2

\* window.devicePixelRatio without the || 1
DevicePixelRatioRaw == window.devicePixelRatio

\* window.devicePixelRatio || 1, in halves
DevicePixelRatioOr1 ==
    IF window.defined /\ window.devicePixelRatio # 0
    THEN window.devicePixelRatio ELSE 2

Init ==
    /\ document \in [train : BOOLEAN, viewport : BOOLEAN, context2d : BOOLEAN,
                     width : 1..MaxDim, height : 1..MaxDim]
    /\ window \in {[defined |-> FALSE, devicePixelRatio |-> 0]}
                  \cup [defined : {TRUE}, devicePixelRatio : {0, 2, 3}]
    /\ sim = InitialWorld
    /\ onclick = FALSE
    /\ world = <<>>
    /\ ctxt = "unset"
    /\ viewport = [width |-> document.width, height |-> document.height,
                   styleWidth |-> <<>>, styleHeight |-> <<>>]
    /\ viewportWidth = 0 /\ viewportHeight = 0 /\ viewportScale = 0
    /\ ctx = NewContext
    /\ helpers = FALSE
    /\ pc = "L3"
    /\ fault = "none"
    /\ snap = <<>> /\ i = 1
    /\ pending = 0 /\ frames = 0 /\ rafCalls = 0
    /\ stepCalls = 0 /\ trainCalls = 0 /\ worldCalls = 0
    /\ ops = <<>>
    /\ lastCall = <<>> /\ nCalls = 0

\* ---------------------------------------------------------------- setup
\* lines 3-7: new Simulation(); getElementById('train').onclick = ...
SetupTrain ==
    /\ pc = "L3"
    /\ IF document.train
       THEN onclick' = TRUE /\ pc' = "L9" /\ fault' = fault
       ELSE onclick' = onclick /\ pc' = "idle" /\ fault' = "L5"
    /\ UNCHANGED <<env, sim, world, ctxt, viewport, consts, ctx, helpers, snap,
                   i, pending, frames, rafCalls, stepCalls, trainCalls,
                   worldCalls, ops, helperVars>>

\* lines 9-10: const world = simulation.world(); const viewport = ...
SetupWorld ==
    /\ pc = "L9"
    /\ world' = <<World(sim)>>
    /\ worldCalls' = worldCalls + 1
    /\ pc' = "L16"
    /\ UNCHANGED <<env, sim, onclick, ctxt, viewport, consts, ctx, helpers,
                   fault, snap, i, pending, frames, rafCalls, stepCalls,
                   trainCalls, ops, helperVars>>

\* line 16: const ctxt = viewport.getContext('2d')
SetupContext ==
    /\ pc = "L16"
    /\ IF document.viewport
       THEN /\ ctxt' = IF document.context2d THEN "context" ELSE "null"
            /\ pc' = "L17" /\ fault' = fault
       ELSE ctxt' = ctxt /\ pc' = "idle" /\ fault' = "L16"
    /\ UNCHANGED <<env, sim, onclick, world, viewport, consts, ctx, helpers,
                   snap, i, pending, frames, rafCalls, stepCalls, trainCalls,
                   worldCalls, ops, helperVars>>

\* lines 17-62: read the size and the scale, enlarge the buffer, set the CSS size
SetupSize ==
    /\ pc = "L17"
    /\ viewportWidth' = viewport.width
    /\ viewportHeight' = viewport.height
    /\ viewportScale' = DevicePixelRatioOr1
    /\ viewport' =
         [width |-> CanvasDimension(viewportWidth' * viewportScale'),
          height |-> CanvasDimension(viewportHeight' * viewportScale'),
          styleWidth |-> <<viewportWidth', "px">>,
          styleHeight |-> <<viewportHeight', "px">>]
    /\ ctx' = NewContext        \* assigning the width resets the context
    /\ pc' = "L69"
    /\ UNCHANGED <<env, sim, onclick, world, ctxt, helpers, fault, snap, i,
                   pending, frames, rafCalls, stepCalls, trainCalls,
                   worldCalls, ops, helperVars>>

\* ctxt?.scale(...): a null context is skipped over
SetupScaleLenient ==
    /\ pc = "L69"
    /\ ctx' = IF ctxt = "context" THEN scale(ctx, viewportScale) ELSE ctx
    /\ pc' = "L74"
    /\ UNCHANGED <<env, sim, onclick, world, ctxt, viewport, consts, helpers,
                   fault, snap, i, pending, frames, rafCalls, stepCalls,
                   trainCalls, worldCalls, ops, helperVars>>

\* line 69: ctxt.scale(viewportScale, viewportScale)
SetupScale ==
    /\ pc = "L69"
    /\ IF ctxt = "context"
       THEN ctx' = scale(ctx, viewportScale) /\ pc' = "L74" /\ fault' = fault
       ELSE ctx' = ctx /\ pc' = "idle" /\ fault' = "L69"
    /\ UNCHANGED <<env, sim, onclick, world, ctxt, viewport, consts, helpers,
                   snap, i, pending, frames, rafCalls, stepCalls, trainCalls,
                   worldCalls, ops, helperVars>>

\* lines 74-115: the two helpers are added to the prototype
SetupHelpers ==
    /\ pc = "L74"
    /\ helpers' = TRUE
    /\ pc' = "L148"
    /\ UNCHANGED <<env, sim, onclick, world, ctxt, viewport, consts, ctx,
                   fault, snap, i, pending, frames, rafCalls, stepCalls,
                   trainCalls, worldCalls, ops, helperVars>>

\* line 148: redraw()
StartRedraw ==
    /\ pc = "L148"
    /\ frames' = frames + 1
    /\ ops' = <<>>
    /\ ctx' = [ctx EXCEPT !.calls = <<>>]
    /\ pc' = "r118"
    /\ UNCHANGED <<env, sim, onclick, world, ctxt, viewport, consts, helpers,
                   fault, snap, i, pending, rafCalls, stepCalls, trainCalls,
                   worldCalls, helperVars>>

\* --------------------------------------------------------------- redraw
\* The simulation's state changes with every step() and train(): this counts them.
Version == stepCalls + trainCalls

Op(name, args) == Append(ops, <<name, args>>)

\* clearRect over an empty rectangle
ClearCanvasEmptyRect ==
    /\ pc = "r118"
    /\ ctx' = clearRect(ctx, 0, 0, viewport.width, viewport.height)
    /\ ops' = Op("clearRect", <<0, 0, 0, 0>>)
    /\ pc' = "r120"
    /\ UNCHANGED <<env, sim, onclick, world, ctxt, viewport, consts, helpers,
                   fault, snap, i, pending, frames, rafCalls, stepCalls,
                   trainCalls, worldCalls, helperVars>>

\* line 118: ctxt.clearRect(0, 0, viewportWidth, viewportHeight)
ClearCanvas ==
    /\ pc = "r118"
    /\ ctx' = clearRect(ctx, viewportWidth, viewportHeight,
                        viewport.width, viewport.height)
    /\ ops' = Op("clearRect", <<0, 0, viewportWidth, viewportHeight>>)
    /\ pc' = "r120"
    /\ UNCHANGED <<env, sim, onclick, world, ctxt, viewport, consts, helpers,
                   fault, snap, i, pending, frames, rafCalls, stepCalls,
                   trainCalls, worldCalls, helperVars>>

\* line 120: simulation.step()
StepSimulation ==
    /\ pc = "r120"
    /\ \E w \in Worlds : sim' = w
    /\ stepCalls' = stepCalls + 1
    /\ ops' = Op("step", <<>>)
    /\ pc' = "r122"
    /\ UNCHANGED <<env, onclick, world, ctxt, viewport, consts, ctx, helpers,
                   fault, snap, i, pending, frames, rafCalls, trainCalls,
                   worldCalls, helperVars>>

\* line 122: simulation.world().foods, evaluated once by the for..of
FetchFoods ==
    /\ pc = "r122"
    /\ snap' = World(sim).foods
    /\ i' = 1
    /\ worldCalls' = worldCalls + 1
    /\ ops' = Op("world", <<Version>>)
    /\ pc' = IF snap' = <<>> THEN "r130" ELSE "r123"
    /\ UNCHANGED <<env, sim, onclick, world, ctxt, viewport, consts, ctx,
                   helpers, fault, pending, frames, rafCalls, stepCalls,
                   trainCalls, helperVars>>

\* food.y scaled by the width instead of the height
DrawFoodByWidth ==
    /\ pc = "r123"
    /\ LET food == snap[i]
           x == food.x * viewportWidth
           y == food.y * viewportWidth
           radius == 5 * viewportWidth
       IN  /\ ctx' = drawCircle(ctx, x, y, radius)
           /\ ops' = Op("drawCircle", <<x, y, radius>>)
    /\ i' = i + 1
    /\ pc' = IF i = Len(snap) THEN "r130" ELSE "r123"
    /\ UNCHANGED <<env, sim, onclick, world, ctxt, viewport, consts, helpers,
                   fault, snap, pending, frames, rafCalls, stepCalls,
                   trainCalls, worldCalls, helperVars>>

\* lines 123-127: one ctxt.drawCircle per food
DrawFood ==
    /\ pc = "r123"
    /\ LET food == snap[i]
           x == food.x * viewportWidth
           y == food.y * viewportHeight
           radius == 5 * viewportWidth      \* (0.01 / 2.0) * viewportWidth
       IN  /\ ctx' = drawCircle(ctx, x, y, radius)
           /\ ops' = Op("drawCircle", <<x, y, radius>>)
    /\ i' = i + 1
    /\ pc' = IF i = Len(snap) THEN "r130" ELSE "r123"
    /\ UNCHANGED <<env, sim, onclick, world, ctxt, viewport, consts, helpers,
                   fault, snap, pending, frames, rafCalls, stepCalls,
                   trainCalls, worldCalls, helperVars>>

\* line 130: simulation.world().animals
FetchAnimals ==
    /\ pc = "r130"
    /\ snap' = World(sim).animals
    /\ i' = 1
    /\ worldCalls' = worldCalls + 1
    /\ ops' = Op("world", <<Version>>)
    /\ pc' = IF snap' = <<>> THEN "r143" ELSE "r131"
    /\ UNCHANGED <<env, sim, onclick, world, ctxt, viewport, consts, ctx,
                   helpers, fault, pending, frames, rafCalls, stepCalls,
                   trainCalls, helperVars>>

\* lines 131-136: one ctxt.drawTriangle per animal
DrawAnimal ==
    /\ pc = "r131"
    /\ LET animal == snap[i]
           x == animal.x * viewportWidth
           y == animal.y * viewportHeight
           size == 10 * viewportWidth       \* 0.01 * viewportWidth
       IN  /\ ctx' = drawTriangle(ctx, x, y, size, animal.rotation)
           /\ ops' = Op("drawTriangle", <<x, y, size, animal.rotation>>)
    /\ i' = i + 1
    /\ pc' = IF i = Len(snap) THEN "r143" ELSE "r131"
    /\ UNCHANGED <<env, sim, onclick, world, ctxt, viewport, consts, helpers,
                   fault, snap, pending, frames, rafCalls, stepCalls,
                   trainCalls, worldCalls, helperVars>>

\* redraw returns without requesting the next frame
RequestFrameNone ==
    /\ pc = "r143"
    /\ pc' = "idle"
    /\ UNCHANGED <<env, sim, onclick, world, ctxt, viewport, consts, ctx,
                   helpers, fault, snap, i, pending, frames, rafCalls,
                   stepCalls, trainCalls, worldCalls, ops, helperVars>>

\* line 143: requestAnimationFrame(redraw), and redraw returns
RequestFrame ==
    /\ pc = "r143"
    /\ pending' = pending + 1
    /\ rafCalls' = rafCalls + 1
    /\ ops' = Op("requestAnimationFrame", <<>>)
    /\ pc' = "idle"
    /\ UNCHANGED <<env, sim, onclick, world, ctxt, viewport, consts, ctx,
                   helpers, fault, snap, i, frames, stepCalls, trainCalls,
                   worldCalls, helperVars>>

\* the frame is requested even when the body throws (as from a finally block)
FrameFaultReschedules ==
    /\ pc \in {"r120", "r122", "r123", "r130", "r131"}
    /\ IF pc = "r120"
       THEN /\ stepCalls' = stepCalls + 1
            /\ \E w \in Worlds : sim' = w
            /\ ops' = Op("step", <<>>)
       ELSE UNCHANGED <<stepCalls, sim, ops>>
    /\ worldCalls' = IF pc \in {"r122", "r130"} THEN worldCalls + 1 ELSE worldCalls
    /\ fault' = "frame"
    /\ pending' = pending + 1
    /\ rafCalls' = rafCalls + 1
    /\ pc' = "idle"
    /\ UNCHANGED <<env, onclick, world, ctxt, viewport, consts, ctx, helpers,
                   snap, i, frames, trainCalls, helperVars>>

\* The statement about to run throws: step() (line 120), world() or the
\* iteration of its result (lines 122, 130), or the reading and drawing of an
\* entity (lines 123-136). The call that threw was made; nothing after it runs.
FrameFault ==
    /\ pc \in {"r120", "r122", "r123", "r130", "r131"}
    /\ IF pc = "r120"
       THEN /\ stepCalls' = stepCalls + 1
            /\ \E w \in Worlds : sim' = w
            /\ ops' = Op("step", <<>>)
       ELSE UNCHANGED <<stepCalls, sim, ops>>
    /\ worldCalls' = IF pc \in {"r122", "r130"} THEN worldCalls + 1 ELSE worldCalls
    /\ fault' = "frame"
    /\ pc' = "idle"
    /\ UNCHANGED <<env, onclick, world, ctxt, viewport, consts, ctx, helpers,
                   snap, i, pending, frames, rafCalls, trainCalls, helperVars>>

\* ---------------------------------------------------------- host events
\* The host runs a requested callback: redraw is entered (line 117).
RunCallback ==
    /\ pc = "idle"
    /\ pending > 0
    /\ frames < MaxFrames
    /\ pending' = pending - 1
    /\ frames' = frames + 1
    /\ ops' = <<>>
    /\ ctx' = [ctx EXCEPT !.calls = <<>>]
    /\ pc' = "r118"
    /\ UNCHANGED <<env, sim, onclick, world, ctxt, viewport, consts, helpers,
                   fault, snap, i, rafCalls, stepCalls, trainCalls, worldCalls,
                   helperVars>>

\* the handler runs in the middle of a redraw invocation
TrainClickAnyTime ==
    /\ pc \in {"idle", "r122", "r123", "r130", "r131"}
    /\ onclick
    /\ trainCalls < MaxClicks
    /\ \E w \in Worlds : sim' = w
    /\ trainCalls' = trainCalls + 1
    /\ UNCHANGED <<env, onclick, world, ctxt, viewport, consts, ctx, helpers,
                   pc, fault, snap, i, pending, frames, rafCalls, stepCalls,
                   worldCalls, ops, helperVars>>

\* the handler also requests a frame
TrainClickRedraws ==
    /\ pc = "idle"
    /\ onclick
    /\ trainCalls < MaxClicks
    /\ \E w \in Worlds : sim' = w
    /\ trainCalls' = trainCalls + 1
    /\ pending' = pending + 1
    /\ rafCalls' = rafCalls + 1
    /\ UNCHANGED <<env, onclick, world, ctxt, viewport, consts, ctx, helpers,
                   pc, fault, snap, i, frames, stepCalls, worldCalls, ops,
                   helperVars>>

\* lines 5-7: a click on the train button: console.log(simulation.train())
TrainClick ==
    /\ pc = "idle"
    /\ onclick
    /\ trainCalls < MaxClicks
    /\ \E w \in Worlds : sim' = w
    /\ trainCalls' = trainCalls + 1
    /\ UNCHANGED <<env, onclick, world, ctxt, viewport, consts, ctx, helpers,
                   pc, fault, snap, i, pending, frames, rafCalls, stepCalls,
                   worldCalls, ops, helperVars>>

Next ==
    \/ SetupTrain \/ SetupWorld \/ SetupContext \/ SetupSize \/ SetupScale
    \/ SetupHelpers \/ StartRedraw
    \/ ClearCanvas \/ StepSimulation \/ FetchFoods \/ DrawFood \/ FetchAnimals
    \/ DrawAnimal \/ RequestFrame \/ FrameFault
    \/ RunCallback \/ TrainClick

Spec == Init /\ [][Next]_vars

\* ------------------------------------------- the helpers on their own
\* The two prototype methods called in any order, with any arguments, on a
\* context whose fillStyle is whatever earlier drawing left.
Coords == {0, 1000}
Sizes == {0, 10}
Rotations == 0..11

HelperInit ==
    /\ document = [train |-> TRUE, viewport |-> TRUE, context2d |-> TRUE,
                   width |-> 1, height |-> 1]
    /\ window = [defined |-> FALSE, devicePixelRatio |-> 0]
    /\ sim = InitialWorld
    /\ onclick = FALSE
    /\ world = <<>>
    /\ ctxt = "context"
    /\ viewport = [width |-> 1, height |-> 1,
                   styleWidth |-> <<>>, styleHeight |-> <<>>]
    /\ viewportWidth = 0 /\ viewportHeight = 0 /\ viewportScale = 0
    /\ \E f \in {Black, White, Green} : ctx = [NewContext EXCEPT !.fillStyle = f]
    /\ helpers = TRUE
    /\ pc = "helpers"
    /\ fault = "none"
    /\ snap = <<>> /\ i = 1
    /\ pending = 0 /\ frames = 0 /\ rafCalls = 0
    /\ stepCalls = 0 /\ trainCalls = 0 /\ worldCalls = 0
    /\ ops = <<>>
    /\ lastCall = <<>> /\ nCalls = 0

notCtx ==
    <<document, window, sim, onclick, world, ctxt, viewport, viewportWidth,
      viewportHeight, viewportScale, helpers, pc, fault, snap, i, pending,
      frames, rafCalls, stepCalls, trainCalls, worldCalls, ops>>

CallDrawTriangle ==
    /\ pc = "helpers"
    /\ nCalls < MaxCalls
    /\ \E x \in Coords, y \in Coords, size \in Sizes, rotation \in Rotations :
         /\ ctx' = drawTriangle([ctx EXCEPT !.calls = <<>>], x, y, size, rotation)
         /\ lastCall' = <<"drawTriangle", <<x, y, size, rotation>>, ctx.fillStyle>>
    /\ nCalls' = nCalls + 1
    /\ UNCHANGED notCtx

CallDrawCircle ==
    /\ pc = "helpers"
    /\ nCalls < MaxCalls
    /\ \E x \in Coords, y \in Coords, radius \in Sizes :
         /\ ctx' = drawCircle([ctx EXCEPT !.calls = <<>>], x, y, radius)
         /\ lastCall' = <<"drawCircle", <<x, y, radius>>, ctx.fillStyle>>
    /\ nCalls' = nCalls + 1
    /\ UNCHANGED notCtx

HelperNext == CallDrawTriangle \/ CallDrawCircle

HelperSpec == HelperInit /\ [][HelperNext]_vars

\* The host runs every requested callback, and a running script runs on.
Running ==
    \/ SetupTrain \/ SetupWorld \/ SetupContext \/ SetupSize \/ SetupScale
    \/ SetupHelpers \/ StartRedraw
    \/ ClearCanvas \/ StepSimulation \/ FetchFoods \/ DrawFood \/ FetchAnimals
    \/ DrawAnimal \/ RequestFrame \/ FrameFault

FairSpec == Spec /\ WF_vars(RunCallback) /\ WF_vars(Running)

\* ================================================================ claims
AfterSetup == frames >= 1
SetupFault == fault \in {"L5", "L16", "L69"}
Resized == viewport.styleWidth # <<>>

\* What the claims expect of the helpers, written from the claims' formulas.
P0(x, y, size, r) ==
    <<Sub(Num(x), Mul15(Mul(MathSin(r), size))),
      Add(Num(y), Mul15(Mul(MathCos(r), size)))>>
P1(x, y, size, r) ==
    <<Sub(Num(x), Mul(MathSin(r + 4), size)), Add(Num(y), Mul(MathCos(r + 4), size))>>
P2(x, y, size, r) ==
    <<Sub(Num(x), Mul(MathSin(r + 8), size)), Add(Num(y), Mul(MathCos(r + 8), size))>>
Seg(kind, p) == <<kind, p[1], p[2]>>
TrianglePath(x, y, size, r) ==
    <<Seg("M", P0(x, y, size, r)), Seg("L", P1(x, y, size, r)),
      Seg("L", P2(x, y, size, r)), Seg("L", P0(x, y, size, r))>>
CirclePath(x, y, radius) == << <<"A", Num(x), Num(y), Num(radius), 0, 12>> >>
TrianglePaint(a) ==
    << <<"stroke", TrianglePath(a[1], a[2], a[3], a[4]), Black>>,
       <<"fill", TrianglePath(a[1], a[2], a[3], a[4]), White>> >>
CirclePaint(a) == << <<"fill", CirclePath(a[1], a[2], a[3]), Green>> >>

RECURSIVE PaintOf(_)
\* what the drawing calls among a sequence of calls leave on a cleared canvas
PaintOf(calls) ==
    IF calls = <<>> THEN <<>>
    ELSE LET c == calls[Len(calls)]
             before == PaintOf(SubSeq(calls, 1, Len(calls) - 1))
         IN  IF c[1] = "drawCircle" THEN before \o CirclePaint(c[2])
             ELSE IF c[1] = "drawTriangle" THEN before \o TrianglePaint(c[2])
             ELSE before

Names(calls) == [k \in 1..Len(calls) |-> calls[k][1]]
Only(calls, name) == SelectSeq(calls, LAMBDA c : c[1] = name)
Count(calls, name) == Len(Only(calls, name))

\* ---------------------------------------------------------------- C1
\* C1 as stated: after setup the buffer is exactly W * s by H * s.
C1_BufferIsExactlyScaled ==
    AfterSetup =>
        /\ 2 * viewport.width = viewportWidth * viewportScale
        /\ 2 * viewport.height = viewportHeight * viewportScale

\* C1, amended: after setup, and in every later state, W and H are the canvas's
\* width and height as the page gave them, s is window.devicePixelRatio or 1 when
\* that is missing or zero, the CSS size is W px by H px, and the buffer is
\* W * s by H * s with the fraction dropped (exactly W * s when that is whole).
C1_BufferIsScaledAndTruncated ==
    AfterSetup =>
        /\ viewportWidth = document.width
        /\ viewportHeight = document.height
        /\ viewportScale =
             (IF window.defined /\ window.devicePixelRatio # 0
              THEN window.devicePixelRatio ELSE 2)
        /\ 2 * viewport.width <= viewportWidth * viewportScale
        /\ viewportWidth * viewportScale < 2 * viewport.width + 2
        /\ 2 * viewport.height <= viewportHeight * viewportScale
        /\ viewportHeight * viewportScale < 2 * viewport.height + 2
        /\ viewport.styleWidth = <<viewportWidth, "px">>
        /\ viewport.styleHeight = <<viewportHeight, "px">>

C1_Witness ==
    /\ frames >= 2 /\ trainCalls >= 1
    /\ viewportScale = 3 /\ viewportWidth = 1 /\ viewport.width = 1

C3_EveryCallInsideRedraw ==
    [][AfterSetup /\ (stepCalls' # stepCalls \/ worldCalls' # worldCalls
                      \/ trainCalls' # trainCalls) => InRedraw]_vars

\* C3, amended: step() is called only inside a redraw invocation, and so is
\* world() after setup; train() is called from the click handler, which runs only
\* when no script is running and calls nothing else on the simulation; so no call
\* on the simulation begins while another handler's run is in progress.
C3_TrainBetweenFrames ==
    [][/\ (stepCalls' # stepCalls => InRedraw)
       /\ (AfterSetup /\ worldCalls' # worldCalls => InRedraw)
       /\ (trainCalls' # trainCalls =>
             /\ pc = "idle" /\ pc' = "idle"
             /\ stepCalls' = stepCalls /\ worldCalls' = worldCalls)]_vars

C3_Witness == trainCalls >= 1 /\ frames >= 2 /\ pc = "r123"

\* ---------------------------------------------------------------- C4
NoFrameEver ==
    /\ frames = 0 /\ pending = 0 /\ rafCalls = 0 /\ stepCalls = 0
    /\ ctx.painted = <<>> /\ ~helpers

\* C4 as stated: the fault is at the statement that found the thing missing, and
\* no later statement runs: with no context, nothing after line 16.
C4_FaultWhereMissing ==
    /\ (~document.train \/ ~document.viewport \/ ~document.context2d => NoFrameEver)
    /\ (~document.train => worldCalls = 0 /\ ~Resized)
    /\ (document.train /\ document.viewport /\ ~document.context2d =>
           /\ pc \in {"L3", "L9", "L16", "L17", "idle"}
           /\ ~Resized)

\* C4, amended: a missing 'train' element faults at line 5, before world() and
\* the resize; a missing 'viewport' faults at line 16; a missing context faults
\* only at ctxt.scale (line 69), after the canvas was resized and its CSS size
\* set. In each case no later statement runs, redraw is never invoked, no frame
\* is requested, nothing is drawn, and this never changes.
C4_SetupFaultIsFinal ==
    /\ (~document.train \/ ~document.viewport \/ ~document.context2d => NoFrameEver)
    /\ (~document.train =>
           /\ pc \in {"L3", "idle"} /\ (pc = "idle" => fault = "L5")
           /\ worldCalls = 0 /\ ~Resized /\ ~onclick
           /\ viewport.width = document.width)
    /\ (document.train /\ ~document.viewport =>
           /\ pc \in {"L3", "L9", "L16", "idle"} /\ (pc = "idle" => fault = "L16")
           /\ ~Resized /\ ctxt = "unset")
    /\ (document.train /\ document.viewport /\ ~document.context2d =>
           /\ pc \in {"L3", "L9", "L16", "L17", "L69", "idle"}
           /\ (pc = "idle" => fault = "L69" /\ Resized /\ ctx.scale = 2))
    /\ (SetupFault => pc = "idle")

C4_Witness == fault = "L69" /\ Resized /\ trainCalls >= 1

C6_FrameOrder ==
    LET n == Names(ops)
        Rank(name) == CASE name = "clearRect" -> 0
                        [] name = "step" -> 1
                        [] name = "drawCircle" -> 2
                        [] name = "drawTriangle" -> 3
                        [] name = "requestAnimationFrame" -> 4
                        [] OTHER -> 5
        calls == SelectSeq(ops, LAMBDA c : c[1] # "world")
    IN  /\ ops # <<>> =>
             /\ ops[1] = <<"clearRect", <<0, 0, viewportWidth, viewportHeight>> >>
             /\ ctx.painted = PaintOf(ops)
        /\ Len(ops) >= 2 => ops[2] = <<"step", <<>> >>
        /\ \A k \in 1..Len(calls) : Rank(calls[k][1]) <= 4
        /\ \A k \in 1..(Len(calls) - 1) :
             /\ Rank(calls[k][1]) <= Rank(calls[k + 1][1])
             /\ Rank(calls[k][1]) \in {0, 1, 4} =>
                  Rank(calls[k][1]) < Rank(calls[k + 1][1])
        /\ \A k \in 1..Len(ops) :
             /\ n[k] = "world" => k > 2 /\ ops[k][2][1] >= 1
             /\ n[k] = "world" /\ InRedraw => ops[k][2][1] = Version
             /\ n[k] \in {"drawCircle", "drawTriangle"} =>
                  \E j \in 3..(k - 1) : n[j] = "world"
        /\ (pc = "idle" /\ fault = "none" /\ AfterSetup) =>
              ops[Len(ops)][1] = "requestAnimationFrame"
        /\ InRedraw => Count(ops, "requestAnimationFrame") = 0

C6_Witness ==
    /\ frames >= 2 /\ pc = "r143"
    /\ Count(ops, "drawCircle") = 2 /\ Count(ops, "drawTriangle") = 2

\* ---------------------------------------------------------------- C7
CircleArgs(food) ==
    <<food.x * viewportWidth, food.y * viewportHeight, 5 * viewportWidth>>
TriangleArgs(animal) ==
    <<animal.x * viewportWidth, animal.y * viewportHeight, 10 * viewportWidth,
      animal.rotation>>

\* C7: a frame makes one drawCircle call per food of the current snapshot, at
\* (x * W, y * H) with radius 0.005 * W, and one drawTriangle call per animal, at
\* (x * W, y * H) with size 0.01 * W and the animal's rotation, in the snapshot's
\* order, none skipped or repeated; world() is called twice in every frame.
C7_FrameDrawsSnapshot ==
    LET circles == Only(ops, "drawCircle")
        triangles == Only(ops, "drawTriangle")
        foods == World(sim).foods
        animals == World(sim).animals
    IN  /\ pc = "r143" =>
             /\ circles = [k \in 1..Len(foods) |->
                             <<"drawCircle", CircleArgs(foods[k])>>]
             /\ triangles = [k \in 1..Len(animals) |->
                               <<"drawTriangle", TriangleArgs(animals[k])>>]
             /\ Count(ops, "world") = 2
             /\ worldCalls = 1 + 2 * frames
             /\ ctx.painted =
                  PaintOf([k \in 1..Len(foods) |-> <<"drawCircle", CircleArgs(foods[k])>>]
                          \o [k \in 1..Len(animals) |->
                                <<"drawTriangle", TriangleArgs(animals[k])>>])
        /\ pc = "r123" =>
             /\ circles = [k \in 1..(i - 1) |-> <<"drawCircle", CircleArgs(foods[k])>>]
             /\ triangles = <<>>
        /\ pc = "r131" =>
             triangles = [k \in 1..(i - 1) |->
                            <<"drawTriangle", TriangleArgs(animals[k])>>]

C7_Witness ==
    /\ pc = "r143" /\ frames >= 2 /\ trainCalls >= 1
    /\ Len(sim.foods) = 2 /\ Len(sim.animals) = 2
    /\ viewportWidth # viewportHeight

\* ---------------------------------------------------------------- C8
\* C8: whatever helper calls came before, a drawTriangle call strokes its own path
\* and fills it with rgb(255, 255, 255), and a drawCircle call fills its own arc
\* with rgb(0, 255, 128); each leaves its colour in the context's fillStyle.
C8_HelpersStateless ==
    LET n == Len(ctx.painted)
    IN  /\ lastCall # <<>> /\ lastCall[1] = "drawTriangle" =>
             /\ n >= 2
             /\ SubSeq(ctx.painted, n - 1, n) = TrianglePaint(lastCall[2])
             /\ ctx.path = TrianglePath(lastCall[2][1], lastCall[2][2],
                                        lastCall[2][3], lastCall[2][4])
             /\ ctx.fillStyle = White
        /\ lastCall # <<>> /\ lastCall[1] = "drawCircle" =>
             /\ n >= 1
             /\ SubSeq(ctx.painted, n, n) = CirclePaint(lastCall[2])
             /\ ctx.path = CirclePath(lastCall[2][1], lastCall[2][2], lastCall[2][3])
             /\ ctx.fillStyle = Green
        /\ ctx.strokeStyle = Black

C8_Witness ==
    /\ lastCall # <<>> /\ lastCall[1] = "drawCircle" /\ lastCall[3] = White
    /\ nCalls = 2

\* ---------------------------------------------------------------- C9
\* C9: at most one animation-frame callback is pending or running; redraw is
\* started directly once; the simulation is stepped at most once per redraw
\* invocation; and the click handler requests no frame, calls no step() and
\* draws nothing.
C9_OneCallback ==
    /\ [](pending + (IF InRedraw THEN 1 ELSE 0) <= 1)
    /\ [](stepCalls <= frames /\ rafCalls <= frames)
    /\ [](frames - (rafCalls - pending) = (IF AfterSetup THEN 1 ELSE 0))
    /\ [][trainCalls' # trainCalls =>
            /\ pending' = pending /\ rafCalls' = rafCalls /\ frames' = frames
            /\ stepCalls' = stepCalls /\ ctx' = ctx /\ ops' = ops]_vars

C9_Witness ==
    trainCalls = MaxClicks /\ frames >= 2 /\ pending = 1 /\ fault = "none"

\* ---------------------------------------------------------------- C10
\* C10: after a fault inside a frame no callback is pending, requestAnimationFrame
\* was not reached in that frame, no step, world() call or drawing ever happens
\* again, and the click handler is still installed and can call train().
C10_FrameFaultStopsLoop ==
    /\ [](fault = "frame" =>
            /\ pc = "idle" /\ pending = 0 /\ rafCalls = frames - 1
            /\ Count(ops, "requestAnimationFrame") = 0
            /\ onclick
            /\ (trainCalls < MaxClicks => ENABLED TrainClick))
    /\ [][fault = "frame" =>
            /\ fault' = "frame" /\ frames' = frames /\ stepCalls' = stepCalls
            /\ worldCalls' = worldCalls /\ ctx' = ctx /\ pending' = pending]_vars

C10_Witness ==
    /\ fault = "frame" /\ frames = 1 /\ trainCalls >= 1
    /\ ctx.painted # <<>> /\ pc = "idle"

====
